---- MODULE Spec2Model ----
(***************************************************************************)
(* Coverage classification (sql/setup_database.py, sql/fix_branches.py),   *)
(* trend + seasonal forecasting (notebooks/03_forecasting_analysis.py),    *)
(* the dashboard export (notebooks/04_tableau_data_prep.py), the map       *)
(* (notebooks/02_geospatial_analysis.py) and the generator                 *)
(* (generate_data.py) of td-geospatial-analytics.                          *)
(*                                                                         *)
(* Floating-point values are modelled as exact rationals extended with     *)
(* NaN and +/-inf: a pair <<n, d>> with d > 0 in lowest terms is n/d,      *)
(* <<0, 0>> is NaN, <<1, 0>> is +inf and <<-1, 0>> is -inf.                *)
(***************************************************************************)
EXTENDS Integers, Sequences, FiniteSets, TLC

VARIABLES
    region_data,    \* forecaster input: the rows handed to forecast_region
    months_ahead,   \* forecaster input: the horizon
    fresult,        \* what the call of forecast_region produced
    fpc,            \* "ready" before the call, "done" after it
    csv_regions,    \* data/raw/regional_demand.csv
    csv_timeseries, \* data/raw/transactions_timeseries.csv, by region_id
    csv_branches,   \* data/raw/branches.csv
    db_loaded,      \* regional_demand and transactions_timeseries are loaded
    db_branches,    \* the branches table (NoTable before it is created)
    view,           \* which definition of vw_regional_summary is installed
    fc,             \* outcome of the last run of 03_forecasting_analysis.py
    tb,             \* outcome of the last run of 04_tableau_data_prep.py
    gm              \* outcome of the last run of 02_geospatial_analysis.py

fvars == <<region_data, months_ahead, fresult, fpc>>

dbvars == <<csv_regions, csv_timeseries, csv_branches, db_loaded, db_branches,
            view, fc, tb, gm>>

vars == <<region_data, months_ahead, fresult, fpc, csv_regions, csv_timeseries,
          csv_branches, db_loaded, db_branches, view, fc, tb, gm>>

----------------------------------------------------------------------------
(* Bounds of the model *)

MaxAhead == 6
MaxHist == 13
MaxBase == 2
MaxDemand == 7
MaxCap == 2

----------------------------------------------------------------------------
(* Integer helpers *)

Abs(x) == IF x < 0 THEN -x ELSE x

Sgn(x) == IF x < 0 THEN -1 ELSE IF x > 0 THEN 1 ELSE 0

RECURSIVE GCD(_, _)
GCD(a, b) == IF b = 0 THEN a ELSE GCD(b, a % b)

\* quotient truncated toward zero (SQLite integer division, Python int())
TruncDiv(a, b) == Sgn(a) * Sgn(b) * (Abs(a) \div Abs(b))

----------------------------------------------------------------------------
(* float64 arithmetic as extended rationals *)

NaN == <<0, 0>>

Inf(s) == <<s, 0>>

F(n, d) ==
    IF d = 0 THEN <<Sgn(n), 0>>
    ELSE LET g == GCD(Abs(n), Abs(d))
         IN  <<Sgn(d) * (n \div g), Abs(d) \div g>>

Flt(i) == <<i, 1>>

IsNaN(a) == a = NaN

IsFinite(a) == a[2] # 0

FNeg(a) == <<-a[1], a[2]>>

FAdd(a, b) ==
    IF IsNaN(a) \/ IsNaN(b) THEN NaN
    ELSE IF ~IsFinite(a) /\ ~IsFinite(b) THEN (IF a = b THEN a ELSE NaN)
    ELSE IF ~IsFinite(a) THEN a
    ELSE IF ~IsFinite(b) THEN b
    ELSE LET g == GCD(a[2], b[2])
         IN  F(a[1] * (b[2] \div g) + b[1] * (a[2] \div g), (a[2] \div g) * b[2])

FSub(a, b) == FAdd(a, FNeg(b))

FMul(a, b) ==
    IF IsNaN(a) \/ IsNaN(b) THEN NaN
    ELSE IF ~IsFinite(a) \/ ~IsFinite(b)
         THEN (IF a[1] = 0 \/ b[1] = 0 THEN NaN ELSE Inf(Sgn(a[1]) * Sgn(b[1])))
    ELSE LET g1 == GCD(Abs(a[1]), b[2])
             g2 == GCD(Abs(b[1]), a[2])
         IN  F((a[1] \div g1) * (b[1] \div g2), (a[2] \div g2) * (b[2] \div g1))

FDiv(a, b) ==
    IF IsNaN(a) \/ IsNaN(b) THEN NaN
    ELSE IF ~IsFinite(b) THEN (IF IsFinite(a) THEN Flt(0) ELSE NaN)
    ELSE IF ~IsFinite(a) THEN (IF b[1] < 0 THEN FNeg(a) ELSE a)
    ELSE IF b[1] = 0 THEN (IF a[1] = 0 THEN NaN ELSE Inf(Sgn(a[1])))
    ELSE FMul(a, <<Sgn(b[1]) * b[2], Abs(b[1])>>)

\* Python int(x) of a finite float: truncation toward zero
PyInt(a) == TruncDiv(a[1], a[2])

\* round(0) of a finite float: to nearest, ties to even
RoundHalfEven(a) ==
    LET fl  == a[1] \div a[2]
        rem == 2 * (a[1] - fl * a[2])
    IN  IF rem < a[2] THEN fl
        ELSE IF rem > a[2] THEN fl + 1
        ELSE IF fl % 2 = 0 THEN fl ELSE fl + 1

----------------------------------------------------------------------------
(* Calendar: a date is <<year, month, day>> *)

IsLeap(y) == (y % 4 = 0 /\ y % 100 # 0) \/ y % 400 = 0

DaysInMonth(y, m) ==
    IF m = 2 THEN (IF IsLeap(y) THEN 29 ELSE 28)
    ELSE IF m \in {4, 6, 9, 11} THEN 30 ELSE 31

RECURSIVE NormDate(_, _, _)
NormDate(y, m, d) ==
    IF d <= DaysInMonth(y, m) THEN <<y, m, d>>
    ELSE IF m = 12 THEN NormDate(y + 1, 1, d - DaysInMonth(y, m))
    ELSE NormDate(y, m + 1, d - DaysInMonth(y, m))

\* date + timedelta(days = k), k >= 0
AddDays(date, k) == NormDate(date[1], date[2], date[3] + k)

\* the first of the calendar month k months after the month of date
AddMonths(date, k) ==
    LET idx == date[1] * 12 + (date[2] - 1) + k
    IN  <<idx \div 12, (idx % 12) + 1, 1>>

MonthIndex(date) == date[1] * 12 + (date[2] - 1)

DateKey(date) == (date[1] * 12 + (date[2] - 1)) * 31 + (date[3] - 1)

----------------------------------------------------------------------------
(* notebooks/03_forecasting_analysis.py: forecast_region *)

MIN_HISTORY == 12

RECURSIVE InsertByDate(_, _)
InsertByDate(row, s) ==
    IF s = <<>> THEN <<row>>
    ELSE IF DateKey(row.date) <= DateKey(Head(s).date) THEN <<row>> \o s
    ELSE <<Head(s)>> \o InsertByDate(row, Tail(s))

\* the rows left in the order in which they were handed in
sort_values_Unsorted(s) == s

\* region_data.sort_values('date')
RECURSIVE sort_values(_)
sort_values(s) ==
    IF s = <<>> THEN <<>> ELSE InsertByDate(Head(s), sort_values(Tail(s)))

\* np.sum over an array of floats
RECURSIVE FSum(_)
FSum(s) == IF s = <<>> THEN Flt(0) ELSE FAdd(Head(s), FSum(Tail(s)))

\* Series.mean(): NaN entries are skipped, an all-NaN group gives NaN
SeriesMean(s) ==
    LET NotNaN(v) == ~IsNaN(v)
        kept == SelectSeq(s, NotNaN)
    IN  FDiv(FSum(kept), Flt(Len(kept)))

\* date of forecast step i: last_date + timedelta(days=30 * i)
FutureDate(last_date, i) == AddDays(last_date, 30 * i)

\* the exception int(v) raises on a float that is not finite
IntError(v) == IF IsNaN(v) THEN "ValueError" ELSE "OverflowError"

\* intercept = y_mean - slope * x_mean
SlopeIntercept(slope, x_mean, y_mean) ==
    [slope |-> slope, intercept |-> FSub(y_mean, FMul(slope, x_mean))]

\* slope = np.sum((X - x_mean) * (y - y_mean)) / np.sum((X - x_mean) ** 2)
FitFromMeans(X, y, x_mean, y_mean) ==
    SlopeIntercept(
        FDiv(FSum([t \in DOMAIN X |-> FMul(FSub(X[t], x_mean), FSub(y[t], y_mean))]),
             FSum([t \in DOMAIN X |-> FMul(FSub(X[t], x_mean), FSub(X[t], x_mean))])),
        x_mean, y_mean)

\* X.mean(), y.mean()
FitFromArrays(X, y) ==
    FitFromMeans(X, y, FDiv(FSum(X), Flt(Len(X))), FDiv(FSum(y), Flt(Len(y))))

\* the least-squares line through (time_idx, transactions) of the sorted rows
LinearFit(rd) ==
    FitFromArrays([t \in 1..Len(rd) |-> Flt(t - 1)],
                  [t \in 1..Len(rd) |-> Flt(rd[t].transactions)])

\* trend_value = slope * idx + intercept
TrendAt(fit, idx) == FAdd(FMul(fit.slope, Flt(idx)), fit.intercept)

SecondColumn(sel) == [k \in 1..Len(sel) |-> sel[k][2]]

\* the seasonal_factor values of the rows of calendar month m
ValuesOfMonth(rows, m) ==
    LET InMonth(r) == r[1] = m
    IN  SecondColumn(SelectSeq(rows, InMonth))

\* groupby('month')['seasonal_factor'].mean().to_dict()
GroupMeans(rows) ==
    [m \in {rows[t][1] : t \in DOMAIN rows} |-> SeriesMean(ValuesOfMonth(rows, m))]

\* month and seasonal_factor = transactions / trend of every row
SeasonalFactors(rd, fit) ==
    GroupMeans([t \in 1..Len(rd) |->
                  <<rd[t].date[2],
                    FDiv(Flt(rd[t].transactions), TrendAt(fit, t - 1))>>])

\* forecast_value = trend_value * seasonal_adj
PointOf(future_date, trend_value, seasonal_adj) ==
    [date |-> future_date, fv |-> FMul(trend_value, seasonal_adj),
     tv |-> trend_value, adj |-> seasonal_adj]

\* seasonal_factors.get(future_month, 1.0)
SeasonalAdj(seasonal_factors, future_month) ==
    IF future_month \in DOMAIN seasonal_factors
    THEN seasonal_factors[future_month] ELSE Flt(1)

PointAt(future_date, trend_value, seasonal_factors) ==
    PointOf(future_date, trend_value, SeasonalAdj(seasonal_factors, future_date[2]))

\* step i of the forecast loop, up to the conversion to int
ForecastPoint(last_date, last_idx, fit, seasonal_factors, i) ==
    PointAt(FutureDate(last_date, i), TrendAt(fit, last_idx + i), seasonal_factors)

\* the steps at which int(forecast_value) or int(trend_value) raises
BadSteps(pts) ==
    {i \in DOMAIN pts : ~IsFinite(pts[i].fv) \/ ~IsFinite(pts[i].tv)}

FirstError(pt) ==
    IF ~IsFinite(pt.fv) THEN IntError(pt.fv) ELSE IntError(pt.tv)

\* what the loop over range(1, months_ahead + 1) ends in
Raised(pts, bad) ==
    IF bad = {} THEN "none"
    ELSE FirstError(pts[CHOOSE i \in bad : \A j \in bad : i <= j])

ForecastFrame(pts) ==
    [i \in DOMAIN pts |->
        [date |-> pts[i].date,
         forecast |-> PyInt(pts[i].fv),
         trend |-> PyInt(pts[i].tv),
         seasonal_adj |-> pts[i].adj]]

Returned(raised, fit, seasonal_factors, pts) ==
    [raised |-> raised,
     forecasts |-> IF raised = "none" THEN ForecastFrame(pts) ELSE <<>>,
     slope |-> fit.slope,
     intercept |-> fit.intercept,
     seasonal_factors |-> seasonal_factors]

Outcome(fit, seasonal_factors, pts) ==
    Returned(Raised(pts, BadSteps(pts)), fit, seasonal_factors, pts)

\* on an empty frame last_date is NaT and the trend is NaN: the first
\* int(forecast_value) raises ValueError
ForecastFromFactors(rd, ahead, fit, seasonal_factors) ==
    IF rd = <<>>
    THEN Returned(IF ahead = 0 THEN "none" ELSE "ValueError",
                  fit, seasonal_factors, <<>>)
    ELSE Outcome(fit, seasonal_factors,
                 [i \in 1..ahead |->
                    ForecastPoint(rd[Len(rd)].date, Len(rd) - 1, fit,
                                  seasonal_factors, i)])

ForecastFromFit(rd, ahead, fit) ==
    ForecastFromFactors(rd, ahead, fit, SeasonalFactors(rd, fit))

ForecastSorted(rd, ahead) == ForecastFromFit(rd, ahead, LinearFit(rd))

\* forecast_region(region_data, months_ahead): the returned frame, slope and
\* intercept, or the exception raised
forecast_region(data, ahead) == ForecastSorted(sort_values(data), ahead)

----------------------------------------------------------------------------
(* Histories the forecaster is applied to *)

StartDates == {<<2021, 1, 1>>, <<2022, 3, 1>>, <<2022, 11, 17>>}

HistLens == {0, 1, 5, 11} \cup (MIN_HISTORY..MaxHist)

Bases == {10 * k : k \in 0..MaxBase}

Slopes == {-1, 0, 3}

\* index of a seasonal peak (0: none); the peak is mirrored at the other end
\* of the series so that the fitted slope stays the underlying one
Peaks == {0, 3, 5}

\* n monthly records from start, one per calendar month ("calendar") or in
\* the 30-day steps of generate_time_series ("days30"), with
\* transactions = a + b*t plus n at the peak records
MakeHistory(n, start, mode, a, b, peak) ==
    [t \in 1..n |->
        [date |-> IF mode = "calendar"
                  THEN <<AddMonths(start, t - 1)[1], AddMonths(start, t - 1)[2], start[3]>>
                  ELSE AddDays(start, 30 * (t - 1)),
         transactions |->
            a + b * (t - 1)
              + (IF peak > 0 /\ (t = peak \/ t = n + 1 - peak) THEN n ELSE 0)]]

Histories ==
    {h \in {MakeHistory(n, s, md, a, b, pk) :
                n \in HistLens, s \in StartDates, md \in {"calendar", "days30"},
                a \in Bases, b \in Slopes, pk \in Peaks} :
        \A t \in 1..Len(h) : h[t].transactions >= 0}

----------------------------------------------------------------------------
(* Input files: regional_demand.csv, branches.csv, transactions_timeseries.csv *)

RegionOrder == <<"RG001", "RG002", "RG003">>

RegionIds == {RegionOrder[i] : i \in 1..Len(RegionOrder)}

RegionProvince ==
    [r \in RegionIds |-> IF r = "RG003" THEN "British Columbia" ELSE "Ontario"]

\* demand_score in hundredths (the generator rounds it to two decimals)
RegionScore == [r \in RegionIds |->
    IF r = "RG001" THEN 250 ELSE IF r = "RG002" THEN 200 ELSE 260]

BigCap == 6000

BigDemand == 3 * BigCap

BranchIds == {"BR0001", "BR0002", "BR0003", "BR0004"}

\* BR0004 lies in a province for which regional_demand.csv has no region; in
\* some files its monthly_transactions is negative
BranchProvince == [b \in BranchIds |->
    IF b \in {"BR0001", "BR0002"} THEN "Ontario"
    ELSE IF b = "BR0003" THEN "British Columbia" ELSE "Quebec"]

\* region_id of a branch row of a file or table without that column
NoColumn == "<no region_id column>"

NoTable == {[branch_id |-> "<no table>", province |-> "", region_id |-> NoColumn,
             monthly_transactions |-> 0]}

\* the worked example: demand 200000 against one branch of capacity 50000
ScenarioDemand == 200000

ScenarioCap == 50000

HShort == MakeHistory(5, <<2021, 1, 1>>, "calendar", 10, 3, 0)

HSeasonal == MakeHistory(12, <<2021, 1, 1>>, "calendar", 10, 3, 3)

HGrowth == MakeHistory(12, <<2021, 1, 1>>, "calendar", 150000, 5000, 0)

HZero == MakeHistory(12, <<2021, 1, 1>>, "calendar", 0, 0, 0)

TimeSeriesProfiles ==
    { [r \in RegionIds |-> IF r = "RG002" THEN HShort ELSE HSeasonal],
      [r \in RegionIds |-> IF r = "RG001" THEN HGrowth ELSE HSeasonal],
      [r \in RegionIds |-> IF r = "RG003" THEN HZero ELSE HSeasonal] }

RegionFiles ==
    { [r \in RegionIds |->
          [region_id |-> r, province |-> RegionProvince[r],
           demand_score |-> RegionScore[r],
           avg_monthly_transactions |-> IF r = "RG001" THEN d ELSE BigDemand]] :
      d \in (0..MaxDemand) \cup {ScenarioDemand} }

BranchFiles ==
    { { [branch_id |-> b, province |-> BranchProvince[b], region_id |-> NoColumn,
         monthly_transactions |->
            IF b = "BR0001" THEN c1 ELSE IF b = "BR0002" THEN c2
            ELSE IF b = "BR0003" THEN BigCap ELSE c4] : b \in BranchIds } :
      c1 \in (0..MaxCap) \cup {ScenarioCap}, c2 \in {2, BigCap}, c4 \in {2, -5} }

----------------------------------------------------------------------------
(* SQL values: an INTEGER that may be NULL is <<>> (NULL) or <<v>> *)

Null == <<>>

Val(v) == <<v>>

RECURSIVE SumTransactions(_)
SumTransactions(S) ==
    IF S = {} THEN 0
    ELSE LET b == CHOOSE x \in S : TRUE
         IN  b.monthly_transactions + SumTransactions(S \ {b})

\* SUM(b.monthly_transactions) over the joined rows: NULL when no row joins
SqlSum(S) == IF S = {} THEN Null ELSE Val(SumTransactions(S))

Coalesce(v, dflt) == IF v = Null THEN Val(dflt) ELSE v

\* a / b on INTEGER operands: integer division, NULL on a zero divisor
SqlDiv(a, b) ==
    IF a = Null \/ b = Null THEN Null
    ELSE IF b[1] = 0 THEN Null
    ELSE Val(TruncDiv(a[1], b[1]))

\* q > 2 as a WHEN condition: NULL is not true
SqlGreaterThanTwo(q) == q # Null /\ q[1] > 2

\* q < 0.5 as a WHEN condition, q an INTEGER: NULL is not true
SqlLessThanHalf(q) == q # Null /\ 2 * q[1] < 1

\* the CASE expression with the ratio tests ahead of the branch_count test
coverage_status_RatioFirst(branch_count, demand, sum_transactions) ==
    IF SqlGreaterThanTwo(SqlDiv(Val(demand), Coalesce(sum_transactions, 1)))
    THEN "Underserved"
    ELSE IF SqlLessThanHalf(SqlDiv(Val(demand), Coalesce(sum_transactions, 1)))
         THEN "Oversupplied"
    ELSE IF branch_count = 0 THEN "No Coverage"
    ELSE "Balanced"

\* the CASE expression with capacity divided by demand
coverage_status_Inverted(branch_count, demand, sum_transactions) ==
    IF branch_count = 0 THEN "No Coverage"
    ELSE IF SqlGreaterThanTwo(SqlDiv(Coalesce(sum_transactions, 1), Val(demand)))
         THEN "Underserved"
    ELSE IF SqlLessThanHalf(SqlDiv(Coalesce(sum_transactions, 1), Val(demand)))
         THEN "Oversupplied"
    ELSE "Balanced"

\* the CASE expression of vw_regional_summary (fix_branches.py)
coverage_status(branch_count, demand, sum_transactions) ==
    IF branch_count = 0 THEN "No Coverage"
    ELSE IF SqlGreaterThanTwo(SqlDiv(Val(demand), Coalesce(sum_transactions, 1)))
         THEN "Underserved"
    ELSE IF SqlLessThanHalf(SqlDiv(Val(demand), Coalesce(sum_transactions, 1)))
         THEN "Oversupplied"
    ELSE "Balanced"

NoStatus == "<no coverage_status column>"

\* the join of setup_database.py kept in the view of fix_branches.py
JoinedBranches_OnProvince(kind, regions, branches, r) ==
    {b \in branches : b.province = regions[r].province}

\* rows of b that the LEFT JOIN pairs with region r
JoinedBranches(kind, regions, branches, r) ==
    IF kind = "region"
    THEN {b \in branches : b.region_id = r}
    ELSE {b \in branches : b.province = regions[r].province}

\* one row of SELECT * FROM vw_regional_summary
SummaryRow(kind, regions, branches, r) ==
    LET joined == JoinedBranches(kind, regions, branches, r)
        branch_count == Cardinality({b.branch_id : b \in joined})
        total == Coalesce(SqlSum(joined), 0)[1]
    IN  [region_id |-> r,
         province |-> regions[r].province,
         regional_demand |-> regions[r].avg_monthly_transactions,
         demand_score |-> regions[r].demand_score,
         branch_count |-> branch_count,
         total_branch_capacity |-> total,
         capacity_gap |-> regions[r].avg_monthly_transactions - total,
         coverage_status |->
            IF kind = "region"
            THEN coverage_status(branch_count,
                                 regions[r].avg_monthly_transactions,
                                 SqlSum(joined))
            ELSE NoStatus]

\* the all-NULL branch columns of a region row that no branch joins
NullBranch == [branch_id |-> "<NULL>", province |-> "<NULL>",
               region_id |-> "<NULL>", monthly_transactions |-> 0]

\* FROM regional_demand r JOIN branches b: only the matched pairs
LeftJoin_Inner(kind, regions, branches) ==
    UNION { {<<r, b>> : b \in JoinedBranches(kind, regions, branches, r)} :
            r \in DOMAIN regions }

\* FROM regional_demand r LEFT JOIN branches b ON ...: the pairs of a region
\* and a branch row, a region without a match paired with NULLs
LeftJoin(kind, regions, branches) ==
    UNION { IF JoinedBranches(kind, regions, branches, r) = {}
            THEN {<<r, NullBranch>>}
            ELSE {<<r, b>> : b \in JoinedBranches(kind, regions, branches, r)} :
            r \in DOMAIN regions }

\* GROUP BY r.region_id, ...: the keys of the groups
GroupKeys(joined) == {pair[1] : pair \in joined}

GroupRows(kind, regions, branches, keys) ==
    [i \in 1..Len(keys) |-> SummaryRow(kind, regions, branches, keys[i])]

\* SELECT * FROM vw_regional_summary: one row per group, in region_id order
vw_regional_summary(kind, regions, branches) ==
    LET IsGroup(r) == r \in GroupKeys(LeftJoin(kind, regions, branches))
    IN  GroupRows(kind, regions, branches, SelectSeq(RegionOrder, IsGroup))

\* the view can be queried: it exists and so do the tables and columns it names
ViewQueryable ==
    /\ view # "none"
    /\ db_loaded
    /\ db_branches # NoTable
    /\ view = "region" => \A b \in db_branches : b.region_id # NoColumn

\* the rows a script reads from the view in the current state
Summary == vw_regional_summary(view, csv_regions, db_branches)

----------------------------------------------------------------------------
(* sql/setup_database.py and sql/fix_branches.py *)

\* create_database() with the view replaced on every run
create_database_ReplacesView ==
    /\ db_branches' = csv_branches
    /\ db_loaded' = TRUE
    /\ view' = "province"
    /\ UNCHANGED <<csv_regions, csv_timeseries, csv_branches, fc, tb, gm>>

\* create_database(): each table is created with its CHECK constraints and
\* then replaced by to_sql(if_exists='replace'), which drops it and stores
\* the rows of the CSV file in a table without constraints; the view is
\* created only if no view of that name exists
create_database ==
    /\ db_branches' = csv_branches
    /\ db_loaded' = TRUE
    /\ view' = IF view = "none" THEN "province" ELSE view
    /\ UNCHANGED <<csv_regions, csv_timeseries, csv_branches, fc, tb, gm>>

\* assign_branches_to_regions(): every branch of a province that has regions
\* gets one of them (np.random.choice weighted by demand_score); branches of
\* a province without regions are skipped; file, table and view are replaced
assign_branches_to_regions ==
    LET HasRegion(b) == \E r \in RegionIds : csv_regions[r].province = b.province
        kept == {b \in csv_branches : HasRegion(b)}
    IN  \E assigned_region \in [{b.branch_id : b \in kept} -> RegionIds] :
          /\ \A b \in kept :
                /\ csv_regions[assigned_region[b.branch_id]].province = b.province
                /\ csv_regions[assigned_region[b.branch_id]].demand_score > 0
          /\ LET branches_with_regions ==
                    {[b EXCEPT !.region_id = assigned_region[b.branch_id]] : b \in kept}
             IN  /\ csv_branches' = branches_with_regions
                 /\ db_branches' = branches_with_regions
          /\ view' = "region"
          /\ UNCHANGED <<csv_regions, csv_timeseries, db_loaded, fc, tb, gm>>

----------------------------------------------------------------------------
(* notebooks/03_forecasting_analysis.py, run as a script *)

HORIZON == 6

TOP_N == 5

CHART_N == 4

BRANCH_CAPACITY == 10000

STAFF_CAPACITY == 600

\* insertion for sort_values('demand_score') with the default ascending=True
RECURSIVE InsertByScore_Ascending(_, _)
InsertByScore_Ascending(row, s) ==
    IF s = <<>> THEN <<row>>
    ELSE IF row.demand_score < Head(s).demand_score THEN <<row>> \o s
    ELSE <<Head(s)>> \o InsertByScore_Ascending(row, Tail(s))

RECURSIVE InsertByScore(_, _)
InsertByScore(row, s) ==
    IF s = <<>> THEN <<row>>
    ELSE IF row.demand_score > Head(s).demand_score THEN <<row>> \o s
    ELSE <<Head(s)>> \o InsertByScore(row, Tail(s))

\* sort_values('demand_score', ascending=False)
RECURSIVE SortByScoreDesc(_)
SortByScoreDesc(s) ==
    IF s = <<>> THEN <<>>
    ELSE LET n == Len(s)
         IN  InsertByScore(s[n], SortByScoreDesc(SubSeq(s, 1, n - 1)))

FirstRows(s, k) == SubSeq(s, 1, IF Len(s) < k THEN Len(s) ELSE k)

\* df_regions[coverage_status == 'Underserved'].sort_values(...).head(5)
underserved_regions(rows) ==
    LET IsUnderserved(row) == row.coverage_status = "Underserved"
    IN  FirstRows(SortByScoreDesc(SelectSeq(rows, IsUnderserved)), TOP_N)

\* the pass reading the first forecast point, forecast_df.iloc[0]
ForecastResult_FirstPoint(region, f) ==
    LET current_capacity == region.total_branch_capacity
        forecast_6mo == f.forecasts[1].forecast
    IN  [region_id |-> region.region_id,
         current_demand |-> region.regional_demand,
         current_capacity |-> current_capacity,
         forecast_6mo |-> forecast_6mo,
         projected_gap |-> forecast_6mo - current_capacity,
         monthly_growth |-> f.slope,
         demand_score |-> region.demand_score]

\* one pass of the loop over underserved_regions, for a region with
\* at least 12 records
ForecastResult(region, f) ==
    LET current_capacity == region.total_branch_capacity
        forecast_6mo == f.forecasts[Len(f.forecasts)].forecast
    IN  [region_id |-> region.region_id,
         current_demand |-> region.regional_demand,
         current_capacity |-> current_capacity,
         forecast_6mo |-> forecast_6mo,
         projected_gap |-> forecast_6mo - current_capacity,
         monthly_growth |-> f.slope,
         demand_score |-> region.demand_score]

\* the loop with region_data taken from the first region of the table
\* instead of the rows of region['region_id']
RECURSIVE ForecastLoop_FirstRegion(_, _)
ForecastLoop_FirstRegion(selected, timeseries) ==
    IF selected = <<>> THEN [raised |-> "none", results |-> <<>>]
    ELSE LET region == Head(selected)
             data == timeseries[RegionOrder[1]]
             rest == ForecastLoop_FirstRegion(Tail(selected), timeseries)
         IN  IF Len(data) < MIN_HISTORY THEN rest
             ELSE LET f == forecast_region(data, HORIZON)
                  IN  IF f.raised # "none"
                      THEN [raised |-> f.raised, results |-> <<>>]
                      ELSE [rest EXCEPT !.results =
                                <<ForecastResult(region, f)>> \o rest.results]

\* the loop over underserved_regions: the results appended until the loop
\* ends or forecast_region raises
RECURSIVE ForecastLoop(_, _)
ForecastLoop(selected, timeseries) ==
    IF selected = <<>> THEN [raised |-> "none", results |-> <<>>]
    ELSE LET region == Head(selected)
             data == timeseries[region.region_id]
             rest == ForecastLoop(Tail(selected), timeseries)
         IN  IF Len(data) < MIN_HISTORY THEN rest
             ELSE LET f == forecast_region(data, HORIZON)
                  IN  IF f.raised # "none"
                      THEN [raised |-> f.raised, results |-> <<>>]
                      ELSE [rest EXCEPT !.results =
                                <<ForecastResult(region, f)>> \o rest.results]

\* (projected_gap / 10000).round(0).astype(int), (projected_gap / 600)...
Recommend(result) ==
    [region_id |-> result.region_id,
     current_capacity |-> result.current_capacity,
     forecast_6mo |-> result.forecast_6mo,
     projected_gap |-> result.projected_gap,
     demand_score |-> result.demand_score,
     monthly_growth |-> result.monthly_growth,
     branches_needed |-> RoundHalfEven(F(result.projected_gap, BRANCH_CAPACITY)),
     staff_needed |-> RoundHalfEven(F(result.projected_gap, STAFF_CAPACITY))]

\* the loop over plot_regions: forecast_region is called for each of the
\* first four selected regions
RECURSIVE ChartLoop(_, _)
ChartLoop(selected, timeseries) ==
    IF selected = <<>> THEN [raised |-> "none", charts |-> <<>>]
    ELSE LET region == Head(selected)
             data == timeseries[region.region_id]
             f == forecast_region(data, HORIZON)
             rest == ChartLoop(Tail(selected), timeseries)
         IN  IF f.raised # "none" THEN [raised |-> f.raised, charts |-> <<>>]
             ELSE [rest EXCEPT !.charts =
                      <<[region_id |-> region.region_id, records |-> Len(data),
                         forecasts |-> f.forecasts]>> \o rest.charts]

NotRun == [status |-> "not run", recommendations |-> <<>>, charts |-> <<>>,
           exported |-> <<>>]

\* what one run of the script leaves behind, given the last export
ForecastingRun(previous) ==
    IF ~ViewQueryable THEN
        [status |-> "DatabaseError", recommendations |-> <<>>, charts |-> <<>>,
         exported |-> previous.exported]
    ELSE IF view # "region" THEN
        [status |-> "KeyError", recommendations |-> <<>>, charts |-> <<>>,
         exported |-> previous.exported]
    ELSE
        LET selected == underserved_regions(Summary)
            loop == ForecastLoop(selected, csv_timeseries)
            recs == [k \in 1..Len(loop.results) |-> Recommend(loop.results[k])]
            plots == ChartLoop(FirstRows(selected, CHART_N), csv_timeseries)
        IN  IF loop.raised # "none" THEN
                [status |-> loop.raised, recommendations |-> <<>>,
                 charts |-> <<>>, exported |-> previous.exported]
            ELSE IF plots.raised # "none" THEN
                [status |-> plots.raised, recommendations |-> recs,
                 charts |-> <<>>, exported |-> previous.exported]
            ELSE
                [status |-> "ok", recommendations |-> recs,
                 charts |-> plots.charts,
                 exported |-> IF Len(recs) > 0 THEN recs ELSE previous.exported]

run_forecasting ==
    /\ fc' = ForecastingRun(fc)
    /\ UNCHANGED <<csv_regions, csv_timeseries, csv_branches, db_loaded,
                   db_branches, view, tb, gm>>

----------------------------------------------------------------------------
(* notebooks/04_tableau_data_prep.py, run as a script *)

\* thresholds of priority_level on demand_score, in hundredths
HIGH_SCORE == 250

MEDIUM_SCORE == 200

\* 'High Priority' from 2.5 upwards
priority_level_FromThreshold(x) ==
    IF x >= HIGH_SCORE THEN "High Priority"
    ELSE IF x > MEDIUM_SCORE THEN "Medium Priority"
    ELSE "Low Priority"

\* 'High Priority' if x > 2.5 else 'Medium Priority' if x > 2.0 else
\* 'Low Priority'
priority_level(x) ==
    IF x > HIGH_SCORE THEN "High Priority"
    ELSE IF x > MEDIUM_SCORE THEN "Medium Priority"
    ELSE "Low Priority"

\* the row of a region that no row of the view joins
NullSummary(regions, r) ==
    [region_id |-> r, province |-> regions[r].province,
     regional_demand |-> regions[r].avg_monthly_transactions,
     demand_score |-> regions[r].demand_score,
     branch_count |-> 0, total_branch_capacity |-> 0, capacity_gap |-> 0,
     coverage_status |-> NoStatus]

\* regional_demand r LEFT JOIN vw_regional_summary v ON r.region_id = v.region_id
RECURSIVE df_regional(_, _, _)
df_regional(order, regions, rows) ==
    IF order = <<>> THEN <<>>
    ELSE LET Joins(v) == v.region_id = Head(order)
             joined == SelectSeq(rows, Joins)
         IN  (IF joined = <<>> THEN <<NullSummary(regions, Head(order))>> ELSE joined)
             \o df_regional(Tail(order), regions, rows)

\* one row of tableau_expansion_recommendations.csv
ExpansionRow(row, rank) ==
    [priority_rank |-> rank,
     region_id |-> row.region_id,
     demand_score |-> row.demand_score,
     capacity_gap |-> row.capacity_gap,
     branches_needed |-> RoundHalfEven(F(row.capacity_gap, BRANCH_CAPACITY)),
     staff_needed |-> RoundHalfEven(F(row.capacity_gap, STAFF_CAPACITY)),
     priority_level |-> priority_level(row.demand_score)]

RankRows(sorted) == [k \in 1..Len(sorted) |-> ExpansionRow(sorted[k], k)]

\* df_regional[coverage_status == 'Underserved'] sorted by demand_score,
\* descending, with the recommendation columns
df_expansion(rows) ==
    LET IsUnderserved(row) == row.coverage_status = "Underserved"
    IN  RankRows(SortByScoreDesc(SelectSeq(rows, IsUnderserved)))

NotExported == [status |-> "not run", regional |-> <<>>, expansion |-> <<>>]

\* a run that appends its rows to those of the previous export
TableauRun_Append(previous) ==
    IF ~ViewQueryable \/ view # "region" THEN
        [previous EXCEPT !.status = "DatabaseError"]
    ELSE
        [status |-> "ok",
         regional |-> previous.regional
                        \o df_regional(RegionOrder, csv_regions, Summary),
         expansion |-> df_expansion(df_regional(RegionOrder, csv_regions, Summary))]

\* what one run of the script leaves behind
TableauRun(previous) ==
    IF ~ViewQueryable \/ view # "region" THEN
        [previous EXCEPT !.status = "DatabaseError"]
    ELSE
        [status |-> "ok",
         regional |-> df_regional(RegionOrder, csv_regions, Summary),
         expansion |-> df_expansion(df_regional(RegionOrder, csv_regions, Summary))]

run_tableau_prep ==
    /\ tb' = TableauRun(tb)
    /\ UNCHANGED <<csv_regions, csv_timeseries, csv_branches, db_loaded,
                   db_branches, view, fc, gm>>

----------------------------------------------------------------------------
(* notebooks/02_geospatial_analysis.py, run as a script *)

\* status_colors: the colour of a regional demand marker
status_colors ==
    [status \in {"Underserved", "Balanced", "Oversupplied", "No Coverage"} |->
        IF status = "Underserved" THEN "#ff6b6b"
        ELSE IF status = "Balanced" THEN "#51cf66"
        ELSE IF status = "Oversupplied" THEN "#339af0"
        ELSE "#ff0000"]

\* status_colors.get(region['coverage_status'], 'gray')
MarkerColor(status) ==
    IF status \in DOMAIN status_colors THEN status_colors[status] ELSE "gray"

\* the row of a centre whose region_id no row of the view carries
NoSummary(r) ==
    [region_id |-> r, province |-> "<NaN>", regional_demand |-> 0,
     demand_score |-> 0, branch_count |-> 0, total_branch_capacity |-> 0,
     capacity_gap |-> 0, coverage_status |-> "<NaN>"]

\* one centre for every region of the view, with or without branches
RECURSIVE region_centers_AllRegions(_, _, _)
region_centers_AllRegions(order, branches, rows) ==
    IF order = <<>> THEN <<>>
    ELSE LET Joins(v) == v.region_id = Head(order)
             joined == SelectSeq(rows, Joins)
         IN  (IF joined = <<>> THEN <<NoSummary(Head(order))>> ELSE joined)
             \o region_centers_AllRegions(Tail(order), branches, rows)

\* df_branches.groupby('region_id').agg(...).reset_index() merged with
\* df_regions on region_id (how='left'): one centre per region_id that some
\* branch carries, in region_id order, with the columns of the view
RECURSIVE region_centers(_, _, _)
region_centers(order, branches, rows) ==
    IF order = <<>> THEN <<>>
    ELSE LET Joins(v) == v.region_id = Head(order)
             joined == SelectSeq(rows, Joins)
             members == {b \in branches : b.region_id = Head(order)}
         IN  (IF members = {} THEN <<>>
              ELSE IF joined = <<>> THEN <<NoSummary(Head(order))>>
              ELSE joined)
             \o region_centers(Tail(order), branches, rows)

\* one folium.Circle of the 'Regional Demand Centers' layer
DemandMarker(region) ==
    [region_id |-> region.region_id,
     coverage_status |-> region.coverage_status,
     color |-> MarkerColor(region.coverage_status)]

\* region_centers[region_centers['coverage_status'] == 'Underserved']
underserved_centers(centers) ==
    LET IsUnderserved(region) == region.coverage_status = "Underserved"
    IN  SelectSeq(centers, IsUnderserved)

\* one entry of heat_data
HeatPoint(region) ==
    [region_id |-> region.region_id, demand_score |-> region.demand_score]

\* one row of expansion_recommendations.csv
ExpansionRecommendation(region) ==
    [region_id |-> region.region_id,
     Demand_Score |-> region.demand_score,
     Capacity_Gap |-> region.capacity_gap,
     Current_Branches |-> region.branch_count,
     Recommended_Action |->
        IF region.capacity_gap > 150000 THEN "Add 2-3 branches"
        ELSE IF region.capacity_gap > 100000 THEN "Add 1-2 branches"
        ELSE "Add 1 branch or mobile service"]

\* SELECT * FROM vw_regional_summary WHERE coverage_status = 'Underserved'
\* ORDER BY demand_score DESC
df_underserved(rows) ==
    LET IsUnderserved(row) == row.coverage_status = "Underserved"
    IN  SortByScoreDesc(SelectSeq(rows, IsUnderserved))

NoMap == [status |-> "not run", markers |-> <<>>, highlighted |-> <<>>,
          heat_data |-> <<>>, underserved |-> <<>>,
          expansion_recommendations |-> <<>>]

\* the layers and files written from the centres
MapFrom(centers, rows) ==
    [status |-> "ok",
     markers |-> [k \in 1..Len(centers) |-> DemandMarker(centers[k])],
     highlighted |-> [k \in 1..Len(underserved_centers(centers)) |->
                        underserved_centers(centers)[k].region_id],
     heat_data |-> [k \in 1..Len(centers) |-> HeatPoint(centers[k])],
     underserved |-> df_underserved(rows),
     expansion_recommendations |->
        [k \in 1..Len(underserved_centers(centers)) |->
            ExpansionRecommendation(underserved_centers(centers)[k])]]

\* what one run of the script leaves behind: the three queries fail on a
\* database without the tables, the view or its coverage_status column
GeospatialRun(previous) ==
    IF ~ViewQueryable \/ view # "region" THEN
        [previous EXCEPT !.status = "DatabaseError"]
    ELSE MapFrom(region_centers(RegionOrder, db_branches, Summary), Summary)

run_geospatial_analysis ==
    /\ gm' = GeospatialRun(gm)
    /\ UNCHANGED <<csv_regions, csv_timeseries, csv_branches, db_loaded,
                   db_branches, view, fc, tb>>

----------------------------------------------------------------------------
(* Specifications *)

NoResult == [raised |-> "pending", forecasts |-> <<>>, slope |-> NaN,
             intercept |-> NaN, seasonal_factors |-> <<>>]

\* the scripts run, in any order and any number of times, on generated files
Init ==
    /\ csv_regions \in RegionFiles
    /\ csv_timeseries \in TimeSeriesProfiles
    /\ csv_branches \in BranchFiles
    /\ db_loaded = FALSE
    /\ db_branches = NoTable
    /\ view = "none"
    /\ fc = NotRun
    /\ tb = NotExported
    /\ gm = NoMap
    /\ region_data = <<>>
    /\ months_ahead = HORIZON
    /\ fresult = NoResult
    /\ fpc = "unused"

Next ==
    \/ create_database /\ UNCHANGED fvars
    \/ assign_branches_to_regions /\ UNCHANGED fvars
    \/ run_forecasting /\ UNCHANGED fvars

Spec == Init /\ [][Next]_vars

\* the database scripts and the dashboard export, in any order
NextTableau ==
    \/ create_database /\ UNCHANGED fvars
    \/ assign_branches_to_regions /\ UNCHANGED fvars
    \/ run_tableau_prep /\ UNCHANGED fvars

SpecTableau == Init /\ [][NextTableau]_vars

\* the database scripts and the map, in any order
NextGeospatial ==
    \/ create_database /\ UNCHANGED fvars
    \/ assign_branches_to_regions /\ UNCHANGED fvars
    \/ run_geospatial_analysis /\ UNCHANGED fvars

SpecGeospatial == Init /\ [][NextGeospatial]_vars

\* forecast_region applied once to a history and a horizon
InitForecaster ==
    /\ region_data \in Histories
    /\ months_ahead \in 1..MaxAhead
    /\ fresult = NoResult
    /\ fpc = "ready"
    /\ csv_regions = <<>>
    /\ csv_timeseries = <<>>
    /\ csv_branches = {}
    /\ db_loaded = FALSE
    /\ db_branches = NoTable
    /\ view = "none"
    /\ fc = NotRun
    /\ tb = NotExported
    /\ gm = NoMap

\* forecast_df, slope, intercept = forecast_region(region_data, months_ahead)
CallForecastRegion ==
    /\ fpc = "ready"
    /\ fresult' = forecast_region(region_data, months_ahead)
    /\ fpc' = "done"
    /\ UNCHANGED <<region_data, months_ahead>>

NextForecaster == CallForecastRegion /\ UNCHANGED dbvars

SpecForecaster == InitForecaster /\ [][NextForecaster]_vars

----------------------------------------------------------------------------
(* generate_data.py: generate_time_series *)

\* months = 36
MONTHS == 36

MaxGenBase == 5

\* avg_monthly_transactions of the regions handed to the generator, in hundreds
GenBases == {100 * k : k \in 1..MaxGenBase}

\* np.random.uniform(0.95, 1.05), drawn per record: three of its sequences
NoisePatterns == {0, 1, 2}

random_factor(noise, month) == F(95 + 5 * ((noise + month) % 3), 100)

\* 1.15 in the holiday season, 0.90 after it, 1.05 in summer, else 1.0
GenSeasonalFactor(month_num) ==
    IF month_num \in {11, 12} THEN F(115, 100)
    ELSE IF month_num \in {1, 2} THEN F(90, 100)
    ELSE IF month_num \in {6, 7, 8} THEN F(105, 100)
    ELSE Flt(1)

\* growth_factor = 1 + (month / months) * 0.06
growth_factor(month) == FAdd(Flt(1), FMul(F(month, MONTHS), F(6, 100)))

\* current_date = start_date + timedelta(days=30 * month)
current_date(month) == AddDays(<<2021, 1, 1>>, 30 * month)

\* int(base_transactions * seasonal_factor * growth_factor * random_factor)
GenTransactions(base, date, month, noise) ==
    PyInt(FMul(FMul(FMul(Flt(base), GenSeasonalFactor(date[2])),
                    growth_factor(month)),
               random_factor(noise, month)))

GenRecord(base, date, month, noise) ==
    [date |-> date, transactions |-> GenTransactions(base, date, month, noise)]

\* the records appended for one region, month = 0 .. months - 1
GenSeries(base, noise) ==
    [t \in 1..MONTHS |-> GenRecord(base, current_date(t - 1), t - 1, noise)]

GenRegionFiles ==
    { [r \in RegionIds |->
          [region_id |-> r, province |-> RegionProvince[r],
           demand_score |-> RegionScore[r],
           avg_monthly_transactions |-> base[r]]] :
      base \in [RegionIds -> GenBases] }

\* generate_time_series(df_regions) is about to be called
InitGenerator ==
    /\ csv_regions \in GenRegionFiles
    /\ csv_timeseries = <<>>
    /\ csv_branches = {}
    /\ db_loaded = FALSE
    /\ db_branches = NoTable
    /\ view = "none"
    /\ fc = NotRun
    /\ tb = NotExported
    /\ gm = NoMap
    /\ region_data = <<>>
    /\ months_ahead = HORIZON
    /\ fresult = NoResult
    /\ fpc = "generator"

\* df_timeseries = generate_time_series(df_regions)
generate_time_series ==
    /\ fpc = "generator"
    /\ \E noise \in NoisePatterns :
          csv_timeseries' =
              [r \in RegionIds |->
                  GenSeries(csv_regions[r].avg_monthly_transactions, noise)]
    /\ fpc' = "generated"
    /\ UNCHANGED <<region_data, months_ahead, fresult, csv_regions, csv_branches,
                   db_loaded, db_branches, view, fc, tb, gm>>

NextGenerator == generate_time_series

SpecGenerator == InitGenerator /\ [][NextGenerator]_vars

----------------------------------------------------------------------------
(* Coverage classification: C1 - C5 *)

\* the view of fix_branches.py is installed and answers queries
RegionViewLive == ViewQueryable /\ view = "region"

\* the branches currently stored with region r
BranchesOf(r) == {b \in db_branches : b.region_id = r}

\* capacity of region r, branch by branch
RECURSIVE CapacityFrom(_, _)
CapacityFrom(ids, r) ==
    IF ids = {} THEN 0
    ELSE LET id == CHOOSE x \in ids : TRUE
             own == {b \in db_branches : b.branch_id = id /\ b.region_id = r}
         IN  (IF own = {} THEN 0 ELSE (CHOOSE b \in own : TRUE).monthly_transactions)
             + CapacityFrom(ids \ {id}, r)

CapacityOf(r) == CapacityFrom(BranchIds, r)

\* the classification by the real-valued ratio demand / max(capacity, 1)
RatioStatus(demand, capacity) ==
    LET floor1 == IF capacity < 1 THEN 1 ELSE capacity
    IN  IF demand > 2 * floor1 THEN "Underserved"
        ELSE IF 2 * demand < floor1 THEN "Oversupplied"
        ELSE "Balanced"

\* C1: every region with at least one branch is classified by the real-valued
\* ratio avg_monthly_transactions / max(total_branch_capacity, 1):
\* Underserved above 2, Oversupplied below 0.5, Balanced otherwise
C1_ClassifiedByRealRatio ==
    RegionViewLive =>
        \A i \in 1..Len(Summary) :
            Summary[i].branch_count >= 1 =>
                Summary[i].coverage_status =
                    RatioStatus(Summary[i].regional_demand,
                                Summary[i].total_branch_capacity)

\* C2: the boundaries are strict: a region with branches whose demand is
\* exactly 2.0 times, or exactly 0.5 times, its total branch capacity is
\* Balanced
C2_StrictBoundaries ==
    RegionViewLive =>
        \A i \in 1..Len(Summary) :
            /\ Summary[i].branch_count >= 1
            /\ \/ Summary[i].regional_demand = 2 * Summary[i].total_branch_capacity
               \/ 2 * Summary[i].regional_demand = Summary[i].total_branch_capacity
            => Summary[i].coverage_status = "Balanced"

\* C3: a region without any branch of its region_id has branch_count 0,
\* total_branch_capacity 0 and coverage_status 'No Coverage', whatever its
\* demand
C3_NoBranchNoCoverage ==
    RegionViewLive =>
        \A i \in 1..Len(Summary) :
            BranchesOf(Summary[i].region_id) = {} =>
                /\ Summary[i].branch_count = 0
                /\ Summary[i].total_branch_capacity = 0
                /\ Summary[i].coverage_status = "No Coverage"

C3_Witness ==
    /\ RegionViewLive
    /\ \E i \in 1..Len(Summary) :
          /\ BranchesOf(Summary[i].region_id) = {}
          /\ Summary[i].regional_demand > 2
          /\ Summary[i].coverage_status = "No Coverage"
          /\ \E b \in db_branches : b.province = Summary[i].province

\* C4: in every row, capacity_gap is avg_monthly_transactions minus the sum of
\* monthly_transactions over the branches with the region's region_id
C4_CapacityGapExact ==
    RegionViewLive =>
        \A i \in 1..Len(Summary) :
            /\ Summary[i].total_branch_capacity = CapacityOf(Summary[i].region_id)
            /\ Summary[i].capacity_gap =
                  csv_regions[Summary[i].region_id].avg_monthly_transactions
                    - CapacityOf(Summary[i].region_id)

C4_Witness ==
    /\ RegionViewLive
    /\ \E i, j \in 1..Len(Summary) :
          /\ i # j
          /\ Summary[i].province = Summary[j].province
          /\ Summary[i].branch_count = 1
          /\ Summary[j].branch_count = 1
          /\ Summary[i].total_branch_capacity > 0
          /\ Summary[i].capacity_gap < 0
          /\ Summary[j].capacity_gap > 0

\* C5: a region with branches whose total capacity is 0 is classified with a
\* capacity floor of 1, so it is Underserved when its demand exceeds 2
C5_ZeroCapacityFloor ==
    RegionViewLive =>
        \A i \in 1..Len(Summary) :
            /\ Summary[i].branch_count >= 1
            /\ Summary[i].total_branch_capacity = 0
            /\ Summary[i].regional_demand > 2
            => Summary[i].coverage_status = "Underserved"

----------------------------------------------------------------------------
(* Capacity planning: C6 *)

\* C6: a recommendation whose projected_gap is negative has branches_needed 0
\* and staff_needed 0
C6_NoNegativeRecommendation ==
    \A k \in 1..Len(fc.recommendations) :
        fc.recommendations[k].projected_gap < 0 =>
            /\ fc.recommendations[k].branches_needed = 0
            /\ fc.recommendations[k].staff_needed = 0

----------------------------------------------------------------------------
(* Forecaster: C7 - C10 *)

Sorted == sort_values(region_data)

LastDate == Sorted[Len(Sorted)].date

\* a MonthlyRecord series: at least 12 records, first-of-month dates in
\* consecutive calendar months, non-negative transactions
ValidHistory ==
    /\ Len(Sorted) >= MIN_HISTORY
    /\ \A t \in 1..Len(Sorted) :
          /\ Sorted[t].transactions >= 0
          /\ Sorted[t].date[3] = 1
          /\ MonthIndex(Sorted[t].date) = MonthIndex(Sorted[1].date) + (t - 1)

\* transactions = a + b*t over the time index
LinearA == Sorted[1].transactions

LinearB == Sorted[2].transactions - Sorted[1].transactions

LinearHistory ==
    /\ Len(Sorted) >= MIN_HISTORY
    /\ \A t \in 1..Len(Sorted) :
          Sorted[t].transactions = LinearA + LinearB * (t - 1)

\* C7: on fewer than 12 records the call ends in InsufficientHistoryError and
\* produces no forecast point
C7_ShortHistoryRejected ==
    (fpc = "done" /\ Len(region_data) < MIN_HISTORY) =>
        /\ fresult.raised = "InsufficientHistoryError"
        /\ fresult.forecasts = <<>>

\* C8: on a valid history the call returns exactly months_ahead points, in
\* increasing date order
C8_ExactlyMonthsAheadPoints ==
    (fpc = "done" /\ ValidHistory) =>
        /\ fresult.raised = "none"
        /\ Len(fresult.forecasts) = months_ahead
        /\ \A i \in 1..(months_ahead - 1) :
              DateKey(fresult.forecasts[i].date) < DateKey(fresult.forecasts[i + 1].date)

\* C9: forecast point i falls in the calendar month i months after the month
\* of the last historical record
C9_ConsecutiveCalendarMonths ==
    (fpc = "done" /\ fresult.raised = "none" /\ Len(region_data) >= MIN_HISTORY) =>
        \A i \in 1..Len(fresult.forecasts) :
            MonthIndex(fresult.forecasts[i].date) = MonthIndex(LastDate) + i

\* C10: on a perfectly linear history a + b*t of n >= 12 records the slope is
\* b, the intercept a, every seasonal multiplier 1.0 and the forecast at step
\* i is a + b*(n-1+i)
C10_LinearHistoryExtrapolated ==
    (fpc = "done" /\ LinearHistory) =>
        /\ fresult.raised = "none"
        /\ fresult.slope = Flt(LinearB)
        /\ fresult.intercept = Flt(LinearA)
        /\ \A m \in DOMAIN fresult.seasonal_factors :
              fresult.seasonal_factors[m] = Flt(1)
        /\ \A i \in 1..Len(fresult.forecasts) :
              fresult.forecasts[i].forecast =
                  LinearA + LinearB * (Len(Sorted) - 1 + i)

----------------------------------------------------------------------------
(* End-to-end scenario: C11 *)

\* 12 months growing linearly from 150000 to 205000, no seasonality
ScenarioHistory(h) ==
    /\ Len(h) = 12
    /\ \A t \in 1..12 : h[t].transactions = 150000 + 5000 * (t - 1)

\* the recommendations of the last run made for the region of the scenario:
\* demand 200000, capacity 50000 (one branch), the linear history
ScenarioRecs ==
    IF /\ csv_regions["RG001"].avg_monthly_transactions = ScenarioDemand
       /\ ScenarioHistory(csv_timeseries["RG001"])
    THEN {k \in 1..Len(fc.recommendations) :
            /\ fc.recommendations[k].region_id = "RG001"
            /\ fc.recommendations[k].current_capacity = ScenarioCap}
    ELSE {}

\* C11 (as stated): in the scenario the 6-month forecast lies in
\* 215000..220000, projected_gap in 165000..170000, branches_needed is about
\* 17 and staff_needed about 275
C11_ScenarioAsStated ==
    \A k \in ScenarioRecs :
        /\ fc.recommendations[k].forecast_6mo \in 215000..220000
        /\ fc.recommendations[k].projected_gap \in 165000..170000
        /\ fc.recommendations[k].branches_needed \in 16..18
        /\ fc.recommendations[k].staff_needed \in 265..285

\* C11 (amended): in the scenario the 6-month forecast is the extrapolated
\* trend 150000 + 5000 * 17 = 235000, projected_gap is 185000,
\* branches_needed is 18 and staff_needed is 308
C11_ScenarioExtrapolated ==
    \A k \in ScenarioRecs :
        /\ fc.recommendations[k].forecast_6mo = 235000
        /\ fc.recommendations[k].projected_gap = 185000
        /\ fc.recommendations[k].branches_needed = 18
        /\ fc.recommendations[k].staff_needed = 308

C11_Witness ==
    /\ ScenarioRecs # {}
    /\ \E i \in 1..Len(Summary) :
          /\ Summary[i].region_id = "RG001"
          /\ Summary[i].branch_count = 1
          /\ Summary[i].capacity_gap = 150000

----------------------------------------------------------------------------
(* Pipeline selection and omissions: C12, C13 *)

\* region_ids of the recommendations a run produced
Recommended(run) ==
    {run.recommendations[k].region_id : k \in 1..Len(run.recommendations)}

\* C12: a run of the forecasting script that completes produces a
\* recommendation for every region whose coverage_status is Underserved or
\* No Coverage and that has at least 12 monthly records (the regions are
\* fewer than the top-K cut)
C12_NoCoverageSelected ==
    [][(run_forecasting /\ RegionViewLive /\ fc'.status = "ok") =>
          \A i \in 1..Len(Summary) :
              /\ Summary[i].coverage_status \in {"Underserved", "No Coverage"}
              /\ Len(csv_timeseries[Summary[i].region_id]) >= MIN_HISTORY
              => Summary[i].region_id \in Recommended(fc')]_vars

\* the regions the run selects, by region_id
Selected == {underserved_regions(Summary)[k].region_id :
                k \in 1..Len(underserved_regions(Summary))}

\* C13: when a selected region has fewer than 12 monthly records the run
\* still completes, the other selected regions get their recommendations and
\* the output holds an entry for the short region
C13_ShortHistoryRecorded ==
    [][(run_forecasting /\ RegionViewLive) =>
          \A r \in Selected :
              Len(csv_timeseries[r]) < MIN_HISTORY =>
                  /\ fc'.status = "ok"
                  /\ \A q \in Selected :
                        Len(csv_timeseries[q]) >= MIN_HISTORY => q \in Recommended(fc')
                  /\ r \in Recommended(fc')]_vars

----------------------------------------------------------------------------
(* Expansion recommendations: C14, C15 *)

LevelOrder(level) ==
    IF level = "High Priority" THEN 1
    ELSE IF level = "Medium Priority" THEN 2 ELSE 3

----------------------------------------------------------------------------
(* The regional summary as a view: C16 - C18 *)

\* rows holds exactly one record for every region of regional_demand
OnePerRegion(rows) ==
    /\ Len(rows) = Cardinality(RegionIds)
    /\ \A r \in RegionIds :
          Cardinality({i \in 1..Len(rows) : rows[i].region_id = r}) = 1

\* C16: the regional summary, as the view returns it and as the dashboard
\* export writes it, holds exactly one record per region, regions without
\* branches included, whatever the assignment of branches to regions
C16_OneRecordPerRegion ==
    /\ ViewQueryable => OnePerRegion(Summary)
    /\ tb.status = "ok" => OnePerRegion(tb.regional)

C16_Witness ==
    /\ RegionViewLive
    /\ tb.status = "ok"
    /\ tb.regional = Summary
    /\ \E i \in 1..Len(tb.regional) :
          /\ tb.regional[i].branch_count = 0
          /\ BranchesOf(tb.regional[i].region_id) = {}
    /\ \E i \in 1..Len(tb.regional) : tb.regional[i].branch_count = 2

\* C17: reading the regional summary leaves the region and branch contents
\* and the view as they were, and reading it again over the unchanged
\* contents returns the same records
C17_SummaryIdempotent ==
    [][(run_tableau_prep /\ tb'.status = "ok") =>
          /\ UNCHANGED <<csv_regions, csv_branches, db_branches, db_loaded, view>>
          /\ vw_regional_summary(view', csv_regions', db_branches') = Summary
          /\ TableauRun(tb').regional = tb'.regional
          /\ TableauRun(tb').expansion = tb'.expansion]_vars

\* the summary has been read and a further read returns what is stored
C17_Witness ==
    /\ tb.status = "ok"
    /\ TableauRun(tb) = tb
    /\ Len(tb.expansion) >= 2
    /\ \E i \in 1..Len(tb.regional) : tb.regional[i].coverage_status = "No Coverage"

\* C18: whenever the view can be queried, after any sequence of
\* create_database and assign_branches_to_regions runs, every row's
\* total_branch_capacity and capacity_gap are computed from the branches
\* currently stored with that region's region_id
C18_ViewOverCurrentData ==
    ViewQueryable =>
        \A i \in 1..Len(Summary) :
            /\ Summary[i].total_branch_capacity = CapacityOf(Summary[i].region_id)
            /\ Summary[i].capacity_gap =
                  Summary[i].regional_demand - CapacityOf(Summary[i].region_id)

----------------------------------------------------------------------------
(* Data ingestion: C19 *)

\* C19: once create_database has loaded the CSV files, the branches table
\* holds no row with negative monthly_transactions
C19_MalformedRowsRejected ==
    (db_loaded /\ db_branches # NoTable) =>
        \A b \in db_branches : b.monthly_transactions >= 0

----------------------------------------------------------------------------
(* Independence of the regions' forecasts: C20 *)

\* the loop run for region r alone over the time series table
AloneOver(timeseries, r) ==
    ForecastLoop(<<SummaryRow("region", csv_regions, db_branches, r)>>, timeseries)

\* the loop produced for the region the forecast and slope of rec
SameForecast(rec, alone) ==
    /\ alone.raised = "none"
    /\ Len(alone.results) = 1
    /\ alone.results[1].forecast_6mo = rec.forecast_6mo
    /\ alone.results[1].monthly_growth = rec.monthly_growth

----------------------------------------------------------------------------
(* Branch assignment: C21 *)

\* C21: a run of assign_branches_to_regions writes every branch of the input
\* file to the output, with a region_id of a region of the branch's province
C21_EveryBranchAssigned ==
    [][assign_branches_to_regions =>
          \A b \in csv_branches :
              \E a \in csv_branches' :
                  /\ a.branch_id = b.branch_id
                  /\ a.region_id \in RegionIds
                  /\ csv_regions[a.region_id].province = b.province]_vars

----------------------------------------------------------------------------
(* Generated monthly series: C22 *)

\* C22: every series written by generate_time_series has 36 records whose
\* dates are the first of the month, strictly increasing, in consecutive
\* calendar months from January 2021
C22_GeneratedMonthsDistinct ==
    fpc = "generated" =>
        \A r \in RegionIds :
            /\ Len(csv_timeseries[r]) = 36
            /\ \A t \in 1..Len(csv_timeseries[r]) :
                  /\ csv_timeseries[r][t].date[3] = 1
                  /\ MonthIndex(csv_timeseries[r][t].date)
                        = MonthIndex(<<2021, 1, 1>>) + (t - 1)
            /\ \A t \in 1..(Len(csv_timeseries[r]) - 1) :
                  DateKey(csv_timeseries[r][t].date)
                    < DateKey(csv_timeseries[r][t + 1].date)

----------------------------------------------------------------------------
(* Seasonal multipliers: C23, C24 *)

\* C23: for a history of at least 12 records with non-negative transactions
\* every seasonal multiplier is finite and the call returns its forecast
\* points (a zero trend value does not make a ratio infinite or undefined)
C23_ZeroTrendGuarded ==
    (/\ fpc = "done"
     /\ Len(region_data) >= MIN_HISTORY
     /\ \A t \in 1..Len(region_data) : region_data[t].transactions >= 0) =>
        /\ \A m \in DOMAIN fresult.seasonal_factors :
              IsFinite(fresult.seasonal_factors[m])
        /\ fresult.raised = "none"
        /\ Len(fresult.forecasts) = months_ahead

\* transactions / trend of the record with time index t - 1, by the fitted line
RatioAt(t) ==
    FDiv(Flt(Sorted[t].transactions),
         FAdd(FMul(fresult.slope, Flt(t - 1)), fresult.intercept))

RECURSIVE SumRatios(_)
SumRatios(T) ==
    IF T = {} THEN Flt(0)
    ELSE LET t == CHOOSE x \in T : TRUE
         IN  FAdd(RatioAt(t), SumRatios(T \ {t}))

\* time indices of the records of calendar month m
RecordsOfMonth(m) == {t \in 1..Len(Sorted) : Sorted[t].date[2] = m}

\* the multiplier the claim prescribes for month m
MeanRatio(m) ==
    IF RecordsOfMonth(m) = {} THEN Flt(1)
    ELSE FDiv(SumRatios(RecordsOfMonth(m)), Flt(Cardinality(RecordsOfMonth(m))))

----------------------------------------------------------------------------
(* Numeric policy: C25 *)

\* slope * future_idx + intercept at step i, by the fitted line
ExactTrend(i) ==
    FAdd(FMul(fresult.slope, Flt(Len(region_data) - 1 + i)), fresult.intercept)

\* C25: the forecast value returned for a step equals the trend value times
\* the seasonal multiplier exactly, without rounding or truncation
C25_NoTruncationInside ==
    (fpc = "done" /\ fresult.raised = "none" /\ Len(region_data) >= MIN_HISTORY) =>
        \A i \in 1..Len(fresult.forecasts) :
            Flt(fresult.forecasts[i].forecast)
                = FMul(ExactTrend(i), fresult.forecasts[i].seasonal_adj)

----------------------------------------------------------------------------
(* Guarded calls of the forecaster: C26 *)

\* C26: every forecast the script has drawn in a chart was computed from at
\* least 12 monthly records
C26_EveryCallGuarded ==
    \A k \in 1..Len(fc.charts) : fc.charts[k].records >= MIN_HISTORY

----------------------------------------------------------------------------
(* Expansion export: C27 *)

\* C27: every row of the expansion export has a positive capacity_gap and
\* non-negative branches_needed and staff_needed, and every region the view
\* classifies as Underserved over non-negative branch capacities has
\* capacity_gap > 0
C27_ExpansionNeverNegative ==
    /\ \A k \in 1..Len(tb.expansion) :
          /\ tb.expansion[k].capacity_gap > 0
          /\ tb.expansion[k].branches_needed >= 0
          /\ tb.expansion[k].staff_needed >= 0
    /\ RegionViewLive =>
          \A i \in 1..Len(Summary) :
              /\ Summary[i].coverage_status = "Underserved"
              /\ \A b \in BranchesOf(Summary[i].region_id) : b.monthly_transactions >= 0
              => Summary[i].capacity_gap > 0

C27_Witness ==
    /\ tb.status = "ok"
    /\ \E j, k \in 1..Len(tb.expansion) :
          /\ tb.expansion[j].branches_needed = 0
          /\ tb.expansion[j].staff_needed = 0
          /\ tb.expansion[k].branches_needed > 1

----------------------------------------------------------------------------
(* Which view is installed: C28 *)

\* assign_branches_to_regions has run: branches.csv carries region_id
Assigned == \A b \in csv_branches : b.region_id # NoColumn

\* C28: the installed view has the coverage_status column exactly when
\* assign_branches_to_regions has run at least once; create_database alone
\* installs the view joined on province, without that column, and never
\* replaces the view installed by assign_branches_to_regions
C28_StatusColumnIffAssigned ==
    /\ [](/\ (view = "region") <=> Assigned
          /\ ViewQueryable =>
                \A i \in 1..Len(Summary) :
                    (Summary[i].coverage_status # NoStatus) <=> Assigned)
    /\ [][create_database =>
            /\ view = "none" => view' = "province"
            /\ view = "region" => view' = "region"]_vars

C28_Witness ==
    /\ RegionViewLive
    /\ Assigned
    /\ db_branches = csv_branches
    /\ fc.status = "KeyError"
    /\ \E i \in 1..Len(Summary) : Summary[i].coverage_status = "Underserved"

----------------------------------------------------------------------------
(* Order of the input rows: C29 *)

Reversed(s) == [t \in 1..Len(s) |-> s[Len(s) + 1 - t]]

\* the rows from position k + 1 on, followed by the first k rows
Rotated(s, k) ==
    [t \in 1..Len(s) |-> s[((t + k - 1) % Len(s)) + 1]]

\* slope, intercept and forecast points of two calls agree
SameFit(f, g) ==
    /\ f.raised = g.raised
    /\ f.slope = g.slope
    /\ f.intercept = g.intercept
    /\ f.forecasts = g.forecasts

\* C29: the call on the rows in any other order (reversed, or rotated by
\* five rows) gives the same slope, intercept and forecast points, and the
\* call leaves the caller's rows as they were
C29_OrderIndependent ==
    /\ [](fpc = "done" /\ Len(region_data) >= MIN_HISTORY =>
            /\ SameFit(fresult, forecast_region(Reversed(region_data), months_ahead))
            /\ SameFit(fresult, forecast_region(Rotated(region_data, 5), months_ahead)))
    /\ [][CallForecastRegion => region_data' = region_data]_vars

C29_Witness ==
    /\ fpc = "done"
    /\ Len(region_data) >= MIN_HISTORY
    /\ fresult.raised = "none"
    /\ fresult.slope # Flt(0)
    /\ Sorted = region_data
    /\ Reversed(region_data) # region_data
    /\ \E i \in 1..Len(fresult.forecasts) :
          fresult.forecasts[i].seasonal_adj # Flt(1)

----------------------------------------------------------------------------
(* Regions on the map: C30 *)

\* the row of region r in the view
StatusOf(r) ==
    LET Is(v) == v.region_id = r
    IN  SelectSeq(Summary, Is)[1].coverage_status

OnMap(g) ==
    {g.markers[k].region_id : k \in 1..Len(g.markers)}
        \cup {g.heat_data[k].region_id : k \in 1..Len(g.heat_data)}
        \cup {g.highlighted[k] : k \in 1..Len(g.highlighted)}
        \cup {g.expansion_recommendations[k].region_id :
                k \in 1..Len(g.expansion_recommendations)}

\* C30: a run of the map script puts a region among the demand markers,
\* the heatmap points or the expansion recommendations only if some branch
\* carries its region_id, so never a region whose status is 'No Coverage',
\* a status for which status_colors has a colour
C30_NoCoverageNeverOnMap ==
    [][(run_geospatial_analysis /\ gm'.status = "ok") =>
          /\ \A r \in OnMap(gm') :
                /\ BranchesOf(r) # {}
                /\ StatusOf(r) # "No Coverage"
          /\ \A k \in 1..Len(gm'.markers) :
                gm'.markers[k].coverage_status # "No Coverage"
          /\ {gm'.markers[k].region_id : k \in 1..Len(gm'.markers)}
                = {r \in RegionIds : BranchesOf(r) # {}}
          /\ "No Coverage" \in DOMAIN status_colors]_vars

C30_Witness ==
    /\ gm.status = "ok"
    /\ gm = GeospatialRun(gm)
    /\ \E r \in RegionIds : StatusOf(r) = "No Coverage" /\ r \notin OnMap(gm)
    /\ Len(gm.markers) >= 1
    /\ Len(gm.expansion_recommendations) >= 1

====
